---------------------------- MODULE Spec2Model ----------------------------
(***************************************************************************)
(* A model of the packed-char crate: PackedChar stores either a char or a  *)
(* 22-bit unsigned integer (U22) in one 32-bit word.                       *)
(*                                                                         *)
(* A u32 is modelled as its 32 bits, a function from bit position (0 is    *)
(* the least significant) to {0, 1}; the bit operators of the source       *)
(* (&, |, !, <<, >>, leading_zeros, trailing_zeros, the unsigned order)    *)
(* are defined on that representation, so that every mask and shift of the *)
(* source is computed here as the source computes it.                      *)
(***************************************************************************)
EXTENDS Integers, FiniteSets, Sequences, TLC

(***************************************************************************)
(* u32                                                                     *)
(***************************************************************************)
Width == 32
Bits == 0 .. (Width - 1)

\* The u32 whose value is the natural number n (n < 2^31).
FromNat(n) == [i \in Bits |-> IF i < Width - 1 THEN (n \div (2 ^ i)) % 2 ELSE 0]

\* The u32 whose high half is hi and whose low half is lo (both < 2^16).
FromHalves(hi, lo) ==
    [i \in Bits |-> IF i < 16 THEN (lo \div (2 ^ i)) % 2
                              ELSE (hi \div (2 ^ (i - 16))) % 2]

BitAnd(a, b) == [i \in Bits |-> a[i] * b[i]]
BitOr(a, b) == [i \in Bits |-> IF a[i] = 1 \/ b[i] = 1 THEN 1 ELSE 0]
BitNot(a) == [i \in Bits |-> 1 - a[i]]
\* a << k and a >> k on 32 bits: the bits shifted out are lost.
Shl(a, k) == [i \in Bits |-> IF i >= k THEN a[i - k] ELSE 0]
Shr(a, k) == [i \in Bits |-> IF i + k < Width THEN a[i + k] ELSE 0]

leading_zeros(a) ==
    IF \A i \in Bits : a[i] = 0 THEN Width
    ELSE Width - 1 - (CHOOSE i \in Bits : a[i] = 1 /\ \A j \in Bits : j > i => a[j] = 0)

trailing_zeros(a) ==
    IF \A i \in Bits : a[i] = 0 THEN Width
    ELSE CHOOSE i \in Bits : a[i] = 1 /\ \A j \in Bits : j < i => a[j] = 0

\* The unsigned order of u32.
Lt(a, b) == \E i \in Bits : a[i] < b[i] /\ \A j \in Bits : j > i => a[j] = b[j]
Gt(a, b) == Lt(b, a)
Le(a, b) == ~Lt(b, a)

u32_MAX == [i \in Bits |-> 1]
u32_ZERO == [i \in Bits |-> 0]

(***************************************************************************)
(* char (core): a Unicode scalar value                                     *)
(***************************************************************************)
char_MAX == FromNat(1114111)

\* char::from_u32: None for a surrogate and for a value above char::MAX.
IsScalar(w) ==
    /\ Le(w, char_MAX)
    /\ ~(Le(FromNat(55296), w) /\ Le(w, FromNat(57343)))

None == [tag |-> "None", val |-> u32_ZERO]
Some(w) == [tag |-> "Some", val |-> w]

\* Mutant: a surrogate is recognised by the bits of 0xD800 alone.
char_from_u32_by_mask(w) ==
    IF Le(w, char_MAX) /\ BitAnd(w, FromNat(55296)) # FromNat(55296)
    THEN Some(w) ELSE None

\* Mutant: the upper limit char::MAX is not checked.
char_from_u32_no_max(w) ==
    IF ~(Le(FromNat(55296), w) /\ Le(w, FromNat(57343))) THEN Some(w) ELSE None

char_from_u32(w) == IF IsScalar(w) THEN Some(w) ELSE None

(***************************************************************************)
(* u22.rs                                                                  *)
(***************************************************************************)
U22_MAX == BitNot(Shl(u32_MAX, 22))

Ok(tag, w) == [tag |-> tag, val |-> w]
Err(n) == [tag |-> "Err", val |-> n]

\* Mutant: the comparison with U22::MAX is not strict.
U22_from_u32_ge(n) == IF ~Lt(n, U22_MAX) THEN Err(n) ELSE Ok("U22", n)

U22_from_u32(n) == IF Gt(n, U22_MAX) THEN Err(n) ELSE Ok("U22", n)
U22_from_u32_unchecked(n) == n
U22_as_u32(u) == u

(***************************************************************************)
(* lib.rs: the constants of PackedChar                                     *)
(***************************************************************************)
SURROGATE_LOW == FromNat(55296)
SURROGATE_HIGH == FromNat(57343)
SURROGATE_MASK == BitAnd(SURROGATE_LOW, SURROGATE_HIGH)
LEADING == leading_zeros(char_MAX)
LEADING_MASK == BitNot(Shr(u32_MAX, LEADING))
TRAILING == trailing_zeros(SURROGATE_LOW)
TRAILING_MASK == BitNot(Shl(u32_MAX, TRAILING))
MAX_U22_LEADING == leading_zeros(U22_MAX)

(***************************************************************************)
(* lib.rs: the operations of PackedChar                                    *)
(***************************************************************************)
\* Mutant: the code point is cut to 16 bits.
from_char_u16(c) == BitAnd(c, FromNat(65535))

\* A char is its code point; `c as u32` is that code point.
from_char(c) == c

\* Mutant: the left chunk is shifted by LEADING, not by MAX_U22_LEADING.
from_u22_shl_leading(u22) ==
    LET n == U22_as_u32(u22)
        leading == BitAnd(Shl(n, LEADING), LEADING_MASK)
        trailing == BitAnd(n, TRAILING_MASK)
    IN  BitOr(BitOr(leading, trailing), SURROGATE_MASK)

\* Mutant: the shifted value is not masked to the leading bits.
from_u22_unmasked(u22) ==
    LET n == U22_as_u32(u22)
        leading == Shl(n, MAX_U22_LEADING)
        trailing == BitAnd(n, TRAILING_MASK)
    IN  BitOr(BitOr(leading, trailing), SURROGATE_MASK)

\* Mutant: SURROGATE_MASK is not set.
from_u22_untagged(u22) ==
    LET n == U22_as_u32(u22)
        leading == BitAnd(Shl(n, MAX_U22_LEADING), LEADING_MASK)
        trailing == BitAnd(n, TRAILING_MASK)
    IN  BitOr(leading, trailing)

from_u22(u22) ==
    LET n == U22_as_u32(u22)
        leading == BitAnd(Shl(n, MAX_U22_LEADING), LEADING_MASK)
        trailing == BitAnd(n, TRAILING_MASK)
    IN  BitOr(BitOr(leading, trailing), SURROGATE_MASK)

Char(c) == [tag |-> "Char", val |-> c]
U22(v) == [tag |-> "U22", val |-> v]

\* Mutant: the word is not masked to its trailing bits.
contents_u22_unmasked(w) ==
    LET trailing == w
        leading == BitAnd(w, LEADING_MASK)
    IN  BitOr(trailing, Shr(leading, MAX_U22_LEADING))

\* The value contents() hands to U22::from_u32_unchecked in its None arm.
contents_u22(w) ==
    LET trailing == BitAnd(w, TRAILING_MASK)
        leading == BitAnd(w, LEADING_MASK)
    IN  BitOr(trailing, Shr(leading, MAX_U22_LEADING))

contents(w) ==
    LET r == char_from_u32(w)
    IN  IF r.tag = "Some" THEN Char(r.val)
        ELSE U22(U22_from_u32_unchecked(contents_u22(w)))

try_from(n) ==
    LET r == U22_from_u32(n)
    IN  IF r.tag = "Err" THEN r ELSE Ok("PackedChar", from_u22(r.val))

PackedChar_default == u32_ZERO

\* Mutant: the words are compared as signed integers.
PackedChar_lt_signed(a, b) ==
    \/ a[Width - 1] > b[Width - 1]
    \/ a[Width - 1] = b[Width - 1] /\ Lt(a, b)

\* The derived order of PackedChar: the order of the words.
PackedChar_lt(a, b) == Lt(a, b)

(***************************************************************************)
(* The values the operations are applied to.  Every boundary of the        *)
(* encoding is taken with its neighbours up to MaxDelta away (PairDelta in  *)
(* the runs that hold two PackedChar at once).                             *)
(***************************************************************************)
MaxDelta == 3
PairDelta == 1

\* 0, 42, 'a', 2^10, 2^11, 0xD800, 0xE000, 0xF800, U+FFFD, 0x10000, 0x107FF,
\* 0x1D800, 0x1E000, U+1FAE0, 2^20, 0x110000, 2^21, 0b1010101010101010101010, 2^22.
Centres ==
    { 0, 42, 97, 1024, 2048, 55296, 57344, 63488, 65533, 65536, 67583, 120832,
      122880, 129760, 1048576, 1114112, 2097152, 2796202, 4194304 }

Near(S, delta) == { n + d : n \in S, d \in (-delta) .. delta } \cap Nat

\* u32 values given by their halves: 2^31, 0xAAAAAAAA, 0xFFE00000, u32::MAX.
HighHalves == { 64, 32768, 43690, 65504, 65535 }
LowHalves == { 0, 43690, 65535 }
Far ==
    { FromHalves(hi, lo - d) : hi \in HighHalves,
                               lo \in { l \in LowHalves : l >= MaxDelta },
                               d \in 0 .. MaxDelta }
      \cup { FromHalves(hi, lo + d) : hi \in HighHalves,
                                      lo \in { l \in LowHalves : l + MaxDelta < 65536 },
                                      d \in 0 .. MaxDelta }

\* The u32 arguments, the chars among them, and the U22 among them.
U32s == { FromNat(n) : n \in Near(Centres, MaxDelta) } \cup Far
Chars == { w \in U32s : IsScalar(w) }
U22s == { w \in U32s : Le(w, U22_MAX) }

\* The arguments of the runs that hold two PackedChar at once:
\* 0, 2^11, 0xD800, 0xE000, 0x1D800, 0x110000, 2^21, 2^22 and their neighbours.
PairCentres == { 0, 2048, 55296, 57344, 120832, 1114112, 2097152, 4194304 }
PairU32s == { FromNat(n) : n \in Near(PairCentres, PairDelta) } \cup { u32_MAX }
PairChars == { w \in PairU32s : IsScalar(w) }
PairU22s == { w \in PairU32s : Le(w, U22_MAX) }

\* Arbitrary words, for PackedChar values not built by the constructors.
Words == U32s \cup { from_u22(u) : u \in U22s } \cup { BitNot(w) : w \in U32s }

(***************************************************************************)
(* The state: the last call and what it returned, the contents() of the    *)
(* PackedChar it returned once taken, and a copy of an earlier PackedChar. *)
(***************************************************************************)
VARIABLES call, ret, dec, prev

vars == << call, ret, dec, prev >>

NoCall == [op |-> "none", arg |-> u32_ZERO]
NoValue == [tag |-> "NoValue", val |-> u32_ZERO]
NoPrev == [call |-> NoCall, word |-> u32_ZERO, dec |-> NoValue]

Init ==
    /\ call = NoCall
    /\ ret = NoValue
    /\ dec = NoValue
    /\ prev = NoPrev

FromChar(c) ==
    /\ call' = [op |-> "from_char", arg |-> c]
    /\ ret' = Ok("PackedChar", from_char(c))
    /\ dec' = NoValue
    /\ UNCHANGED prev

FromU22(u) ==
    /\ call' = [op |-> "from_u22", arg |-> u]
    /\ ret' = Ok("PackedChar", from_u22(u))
    /\ dec' = NoValue
    /\ UNCHANGED prev

TryFrom(n) ==
    /\ call' = [op |-> "try_from", arg |-> n]
    /\ ret' = try_from(n)
    /\ dec' = NoValue
    /\ UNCHANGED prev

Default ==
    /\ call' = [op |-> "default", arg |-> u32_ZERO]
    /\ ret' = Ok("PackedChar", PackedChar_default)
    /\ dec' = NoValue
    /\ UNCHANGED prev

U22FromU32(n) ==
    /\ call' = [op |-> "U22::from_u32", arg |-> n]
    /\ ret' = U22_from_u32(n)
    /\ dec' = NoValue
    /\ UNCHANGED prev

\* PackedChar(w): the tuple constructor, which only the crate itself can call.
Raw(w) ==
    /\ call' = [op |-> "PackedChar", arg |-> w]
    /\ ret' = Ok("PackedChar", w)
    /\ dec' = NoValue
    /\ UNCHANGED prev

Contents ==
    /\ ret.tag = "PackedChar"
    /\ dec = NoValue
    /\ dec' = contents(ret.val)
    /\ UNCHANGED << call, ret, prev >>

\* PackedChar is Copy: the value held is kept aside, with what is known of it.
Keep ==
    /\ ret.tag = "PackedChar"
    /\ prev' = [call |-> call, word |-> ret.val, dec |-> dec]
    /\ UNCHANGED << call, ret, dec >>

\* One PackedChar at a time, built by the public constructors.
Next ==
    \/ \E c \in Chars : FromChar(c)
    \/ \E u \in U22s : FromU22(u)
    \/ \E n \in U32s : TryFrom(n)
    \/ \E n \in U32s : U22FromU32(n)
    \/ Default
    \/ Contents

Spec == Init /\ [][Next]_vars

\* Two PackedChar at a time, built by the public constructors.
NextPair ==
    \/ \E c \in PairChars : FromChar(c)
    \/ \E u \in PairU22s : FromU22(u)
    \/ \E n \in PairU32s : TryFrom(n)
    \/ Default
    \/ Contents
    \/ Keep

SpecPair == Init /\ [][NextPair]_vars

\* A PackedChar holding any word at all, and the U22 built from any u32.
NextRaw ==
    \/ \E w \in Words : Raw(w)
    \/ \E n \in U32s : U22FromU32(n)
    \/ Contents

SpecRaw == Init /\ [][NextRaw]_vars

(***************************************************************************)
(* The claims                                                              *)
(***************************************************************************)
Built == ret.tag = "PackedChar"
Decoded == Built /\ dec # NoValue
IntOps == { "from_u22", "try_from" }
PublicOps == { "from_char", "from_u22", "try_from", "default" }
\* 4_194_303, 0xD800, 0xDFFF as u32.
Max22 == FromNat(4194303)
LowSurrogate == FromNat(55296)
HighSurrogate == FromNat(57343)
InSurrogateRange(w) == Le(LowSurrogate, w) /\ Le(w, HighSurrogate)

\* C1: an integer v <= 4_194_303 given to from_u22 or to try_from is returned
\* by contents() as U22(v), also when v is a valid code point.
C1_IntRoundTrip ==
    (call.op \in IntOps /\ Le(call.arg, Max22))
        => /\ Built
           /\ dec # NoValue => dec = U22(call.arg)

C1_Witness ==
    /\ call = [op |-> "try_from", arg |-> FromNat(97)]
    /\ IsScalar(call.arg)
    /\ dec = U22(FromNat(97))

\* C2: a scalar value c given to from_char is returned by contents() as Char(c).
C2_CharRoundTrip ==
    (call.op = "from_char" /\ Le(call.arg, FromNat(1114111))
                           /\ ~InSurrogateRange(call.arg))
        => /\ Built
           /\ dec # NoValue => dec = Char(call.arg)

\* 0x1DFFF: bits 11..15 are those of the surrogates.
C2_Witness ==
    /\ call = [op |-> "from_char", arg |-> FromNat(122879)]
    /\ dec = Char(FromNat(122879))

\* C3: U22::from_u32(n) and PackedChar::try_from(n) succeed exactly when
\* n <= 4_194_303, and fail otherwise with the error carrying n itself.
C3_RangeCheck ==
    (call.op \in { "U22::from_u32", "try_from" })
        => /\ ret.tag # "Err" <=> Le(call.arg, Max22)
           /\ ret.tag # "Err"
                => ret.tag = (IF call.op = "try_from" THEN "PackedChar" ELSE "U22")
           /\ (call.op = "U22::from_u32" /\ ret.tag = "U22") => ret.val = call.arg
           /\ ret.tag = "Err" => ret.val = call.arg

C3_Witness ==
    /\ call = [op |-> "try_from", arg |-> u32_MAX]
    /\ ret = Err(u32_MAX)

\* C4: no word built by from_char is a word built by from_u22, and a built
\* word decodes to the variant it was built from.
C4_MutuallyExclusive ==
    /\ (Built /\ call.op = "from_char")
          => /\ \A u \in U22s : from_u22(u) # ret.val
             /\ dec # NoValue => dec.tag = "Char"
    /\ (Built /\ call.op \in IntOps)
          => /\ \A c \in Chars : from_char(c) # ret.val
             /\ dec # NoValue => dec.tag = "U22"

\* 42 is both a U22 and the code point of '*'.
C4_Witness ==
    /\ call = [op |-> "from_u22", arg |-> FromNat(42)]
    /\ FromNat(42) \in Chars
    /\ dec.tag = "U22"

Held == prev.call.op # "none"
BothChars == Built /\ Held /\ prev.call.op = "from_char" /\ call.op = "from_char"
BothInts == Built /\ Held /\ prev.call.op \in IntOps /\ call.op \in IntOps

\* C5: two PackedChar built by the public constructors have equal words
\* exactly when their contents() are equal, and two different chars, or
\* two different integers, never give the same word.
C5_StructuralEquality ==
    /\ (Decoded /\ Held /\ prev.dec # NoValue
            /\ call.op \in PublicOps /\ prev.call.op \in PublicOps)
          => (prev.word = ret.val <=> prev.dec = dec)
    /\ ((BothChars \/ BothInts) /\ prev.call.arg # call.arg)
          => prev.word # ret.val

\* The same integer through from_u22 and through try_from, both decoded.
C5_Witness ==
    /\ prev.call = [op |-> "from_u22", arg |-> FromNat(2048)]
    /\ call = [op |-> "try_from", arg |-> FromNat(2048)]
    /\ prev.dec = U22(FromNat(2048))
    /\ dec = prev.dec
    /\ ret.val = prev.word

\* C6: whatever word a PackedChar holds, the value contents() hands to
\* U22::from_u32_unchecked is <= 4_194_303, and so is every U22 that
\* U22::from_u32 returns.
C6_DecodedU22Bounded ==
    /\ (call.op = "PackedChar" /\ dec.tag = "U22") => Le(dec.val, Max22)
    /\ (call.op = "U22::from_u32" /\ ret.tag = "U22") => Le(ret.val, Max22)

\* The word of all ones, which no constructor builds.
C6_Witness ==
    /\ call = [op |-> "PackedChar", arg |-> u32_MAX]
    /\ \A u \in U22s : from_u22(u) # u32_MAX
    /\ dec = U22(Max22)

\* C7: the word built from v is ((v >> 11) << 21) | 0xD800 | (v & 0x7FF):
\* bits 21..31 are bits 11..21 of v, bits 0..10 are bits 0..10 of v, bits
\* 11..20 are those of 0xD800; and (v << U22::MAX.leading_zeros()) &
\* LEADING_MASK is the left chunk shifted left by 21.
C7_WireLayout ==
    (call.op \in IntOps /\ Le(call.arg, Max22))
        => LET v == call.arg
               w == ret.val
           IN  /\ Built
               /\ w = BitOr(BitOr(Shl(Shr(v, 11), 21), FromNat(55296)),
                            BitAnd(v, FromNat(2047)))
               /\ \A i \in 0 .. 10 : w[i] = v[i]
               /\ \A i \in 21 .. 31 : w[i] = v[i - 10]
               /\ \A i \in 11 .. 20 : w[i] = (IF i \in { 11, 12, 14, 15 } THEN 1 ELSE 0)
               /\ BitAnd(Shl(v, leading_zeros(U22_MAX)), LEADING_MASK)
                     = Shl(Shr(v, 11), 21)

\* 0b1010101010101010101010 is built as 0xAAA0DAAA.
C7_Witness ==
    /\ call = [op |-> "from_u22", arg |-> FromNat(2796202)]
    /\ ret.val = FromHalves(43680, 55978)

\* C8 as stated: no word built from a char has all the bits of
\* SURROGATE_MASK set, and every word built from an integer has.
C8_Original ==
    /\ (Built /\ call.op = "from_char")
          => BitAnd(ret.val, FromNat(55296)) # FromNat(55296)
    /\ (Built /\ call.op \in IntOps)
          => BitAnd(ret.val, FromNat(55296)) = FromNat(55296)

\* C8 as amended: no word built from a char has its bits 11..20 equal to
\* those of 0xD800 (w & 0x1FF800 # 0xD800), though all the bits of
\* SURROGATE_MASK may be set in it; every word built from an integer has
\* its bits 11..20 equal to those of 0xD800.
C8_MiddleBits ==
    /\ (Built /\ call.op = "from_char")
          => BitAnd(ret.val, FromNat(2095104)) # FromNat(55296)
    /\ (Built /\ call.op \in IntOps)
          => BitAnd(ret.val, FromNat(2095104)) = FromNat(55296)

\* 0xF800 is a char and has all the bits of 0xD800 set.
C8_Witness ==
    /\ call = [op |-> "from_char", arg |-> FromNat(63488)]
    /\ Built
    /\ BitAnd(ret.val, FromNat(55296)) = FromNat(55296)
    /\ BitAnd(ret.val, FromNat(2095104)) # FromNat(55296)

\* C9: for a word built by a public constructor, contents() is a Char exactly
\* when the word with its top 11 bits cleared (w & 0x1FFFFF) is outside
\* [0xD800, 0xDFFF], and then the Char is that masked value; otherwise it is
\* a U22.
C9_DecodeRuleEquivalence ==
    (Decoded /\ call.op \in PublicOps)
        => LET m == BitAnd(ret.val, FromNat(2097151))
           IN  /\ dec.tag = "Char" <=> ~InSurrogateRange(m)
               /\ dec.tag = "Char" => dec.val = m
               /\ dec.tag # "Char" => dec.tag = "U22"

\* A word above char::MAX whose low 21 bits are a surrogate.
C9_Witness ==
    /\ call = [op |-> "from_u22", arg |-> Max22]
    /\ Gt(ret.val, FromNat(1114111))
    /\ InSurrogateRange(BitAnd(ret.val, FromNat(2097151)))
    /\ dec.tag = "U22"

\* C10: the order of PackedChar agrees with the order of the integers among
\* the words built from integers, and with the order of the chars among the
\* words built from chars.
C10_OrderPreserved ==
    ((BothChars \/ BothInts) /\ Lt(prev.call.arg, call.arg))
        => /\ PackedChar_lt(prev.word, ret.val)
           /\ ~PackedChar_lt(ret.val, prev.word)

\* 2^21 - 1 and 2^21: the word of the second has bit 31 set.
C10_Witness ==
    /\ prev.call = [op |-> "from_u22", arg |-> FromNat(2097151)]
    /\ call = [op |-> "from_u22", arg |-> FromNat(2097152)]
    /\ ret.val[31] = 1
    /\ PackedChar_lt(prev.word, ret.val)

====
